---- MODULE Spec2Model ----
(***************************************************************************)
(* Booking / session lifecycle and payment escrow of Esport Coach Connect. *)
(*                                                                         *)
(* session-service (services/session-service/src/main.js) owns the         *)
(* bookings table; payment-service owns payment_intents and talks to the   *)
(* mock Stripe provider.  Every handler is an async function: it runs      *)
(* without interruption up to its next `await dbClient.query(...)`, the    *)
(* database then executes that one statement atomically, and the handler   *)
(* continues.  The services are deployed with several replicas, each with  *)
(* its own connection, so the statements of different requests interleave  *)
(* freely.  One action of this module is one such step.                    *)
(*                                                                         *)
(* Instants are minutes since an arbitrary epoch.                          *)
(***************************************************************************)
EXTENDS Integers, Sequences, FiniteSets

\* ---------------------------------------------------------------- bounds
MaxBookings == 2      \* rows the bookings table may hold
MaxReqs == 2          \* requests in flight at the same time
MaxIntents == 2       \* rows the payment_intents table may hold
MaxCaptures == 2      \* provider captures made on behalf of one intent
MaxNow == 1           \* number of times the clock advances
TickMinutes == 1380   \* minutes the clock advances by (23 hours)

\* ------------------------------------------------------ program constants
MinutesPerHour == 60
DefaultDurationMinutes == 60
CancelCutoffHours == 2
RefundCutoffHours == 24

\* ------------------------------------------------------------ input sets
\* JavaScript's falsy values stand for a missing field: "" and 0.
\* Players and Coaches are the ids of the rows of users and coaches.
Players == {"p1"}
Coaches == {"c1", "c2"}
UnknownCoach == "c9"
StartTimes == {1440, 1500}
Durations == {DefaultDurationMinutes, 2 * DefaultDurationMinutes}
Statuses == {"pending", "confirmed", "in_progress", "completed", "cancelled"}
\* The users a request's body names as acting: the booking's player, the
\* user of its coach, an administrator, the platform's timer and a stranger.
UserIds == {"p1", "c1", "admin", "timer", "u9"}
Amounts == {50}
RefundAmounts == {20}
IntentStatuses == {"requires_action", "authorized", "captured", "refunded"}
Slots == 1 .. MaxReqs

VARIABLES
  bookings,         \* the bookings table; a row's id is its index
  payment_intents,  \* the payment_intents table; a row's id is its index
  stripeIntents,    \* the intents mockStripe.paymentIntents.create has made
  stripeCaptures,   \* per intent id, the calls of mockStripe.paymentIntents.capture
  now,              \* the clock
  reqs              \* the requests in flight, and their responses

vars == <<bookings, payment_intents, stripeIntents, stripeCaptures, now, reqs>>
paymentVars == <<payment_intents, stripeIntents, stripeCaptures>>

\* A request slot nobody uses.
Idle ==
  [op |-> "idle", pc |-> "idle", playerId |-> "", coachId |-> "",
   startsAt |-> 0, durationMinutes |-> 0, id |-> 0, status |-> "",
   bookingId |-> 0, userId |-> "", event |-> "",
   amount |-> 0, from |-> "", now |-> 0, code |-> 0, error |-> "",
   refundEligible |-> FALSE]

Init ==
  /\ bookings = <<>>
  /\ payment_intents = <<>>
  /\ stripeIntents = {}
  /\ stripeCaptures = [i \in 1 .. MaxIntents |-> 0]
  /\ now = 0
  /\ reqs = [r \in Slots |-> Idle]

\* The wall clock of `new Date()` / CURRENT_TIMESTAMP.
Tick ==
  /\ now < MaxNow * TickMinutes
  /\ now' = now + TickMinutes
  /\ UNCHANGED <<bookings, paymentVars, reqs>>

\* A slot whose handler has sent its response: only the response and the
\* request parameters it answers are kept.
Respond(op, code, error) ==
  [Idle EXCEPT !.op = op, !.pc = "done", !.code = code, !.error = error]

\* ------------------------------------------------- POST /bookings (create)
\* A faulty variant: `(starts_at + duration) >= $2`.
ConflictRows_TouchingEnd(coachId, startsAt) ==
  {i \in DOMAIN bookings :
     /\ bookings[i].coach_id = coachId
     /\ bookings[i].starts_at <= startsAt
     /\ bookings[i].starts_at + bookings[i].duration >= startsAt
     /\ bookings[i].status \notin {"cancelled", "completed"}}

\* A faulty variant: the SELECT without its condition on status.
ConflictRows_AnyStatus(coachId, startsAt) ==
  {i \in DOMAIN bookings :
     /\ bookings[i].coach_id = coachId
     /\ bookings[i].starts_at <= startsAt
     /\ bookings[i].starts_at + bookings[i].duration > startsAt}

\* The rows of the conflict SELECT.
ConflictRows(coachId, startsAt) ==
  {i \in DOMAIN bookings :
     /\ bookings[i].coach_id = coachId
     /\ bookings[i].starts_at <= startsAt
     /\ bookings[i].starts_at + bookings[i].duration > startsAt
     /\ bookings[i].status \notin {"cancelled", "completed"}}

\* `if (!playerId || !coachId || !startsAt)`.
MissingCreateField(playerId, coachId, startsAt) ==
  playerId = "" \/ coachId = "" \/ startsAt = 0

\* Create requests that have passed validation and not yet inserted.
CreatesInFlight ==
  {r \in Slots : reqs[r].op = "create" /\ reqs[r].pc \in {"check", "insert"}}

\* The handler up to its first await: destructuring and the required-field
\* check.
ReceiveCreateOf(r, playerIds, coachIds, starts, durations) ==
  /\ reqs[r].pc = "idle"
  /\ Len(bookings) + Cardinality(CreatesInFlight) < MaxBookings
  /\ \E playerId \in playerIds, coachId \in coachIds,
        startsAt \in starts, durationMinutes \in durations :
       reqs' = [reqs EXCEPT ![r] =
         IF MissingCreateField(playerId, coachId, startsAt)
           THEN Respond("create", 400, "required")
           ELSE [Idle EXCEPT !.op = "create", !.pc = "check",
                             !.playerId = playerId, !.coachId = coachId,
                             !.startsAt = startsAt,
                             !.durationMinutes = durationMinutes]]
  /\ UNCHANGED <<bookings, paymentVars, now>>

ReceiveCreate(r) ==
  ReceiveCreateOf(r, Players \cup {""}, Coaches \cup {"", UnknownCoach},
                  StartTimes \cup {0}, Durations)

\* The conflict SELECT returns; 409 when it has rows.
CreateCheck(r) ==
  /\ reqs[r].op = "create" /\ reqs[r].pc = "check"
  /\ reqs' = [reqs EXCEPT ![r] =
       IF ConflictRows(reqs[r].coachId, reqs[r].startsAt) # {}
         THEN Respond("create", 409, "conflict")
         ELSE [reqs[r] EXCEPT !.pc = "insert"]]
  /\ UNCHANGED <<bookings, paymentVars, now>>

\* The row the INSERT stores: status 'confirmed', duration an interval of
\* `${durationMinutes} minutes`.
NewBooking(q) ==
  [player_id |-> q.playerId, coach_id |-> q.coachId,
   starts_at |-> q.startsAt, duration |-> q.durationMinutes,
   timezone |-> "UTC", status |-> "confirmed"]

\* player_id REFERENCES users(id), coach_id REFERENCES coaches(id).
ForeignKeysHold(row) ==
  row.player_id \in Players /\ row.coach_id \in Coaches

\* The INSERT executes, the handler logs the event and answers 201; an
\* INSERT that violates a foreign key throws, and the handler answers 500.
\* `event` is what the handler has written with console.log.
CreateInsert(r) ==
  /\ reqs[r].op = "create" /\ reqs[r].pc = "insert"
  /\ IF ForeignKeysHold(NewBooking(reqs[r]))
       THEN /\ bookings' = Append(bookings, NewBooking(reqs[r]))
            /\ reqs' = [reqs EXCEPT ![r] =
                 [Respond("create", 201, "") EXCEPT
                    !.id = Len(bookings) + 1, !.event = "BookingCreated"]]
       ELSE /\ bookings' = bookings
            /\ reqs' = [reqs EXCEPT ![r] = Respond("create", 500, "failed")]
  /\ UNCHANGED <<paymentVars, now>>

\* ------------------------------------------ PUT /bookings/:id/status
validStatuses == {"confirmed", "in_progress", "completed", "cancelled"}

\* The handler up to its UPDATE: the two checks of the body's status.  `from`
\* is the status the booking has when the request arrives, which is what its
\* caller can know; the handler itself never reads it.
ReceiveStatusOf(r, userIds) ==
  /\ reqs[r].pc = "idle"
  /\ \E id \in 1 .. MaxBookings, status \in Statuses \cup {""},
        userId \in userIds :
       reqs' = [reqs EXCEPT ![r] =
         IF status = "" THEN Respond("status", 400, "required")
         ELSE IF status \notin validStatuses
           THEN Respond("status", 400, "invalid_status")
         ELSE [Idle EXCEPT !.op = "status", !.pc = "update", !.id = id,
                           !.status = status, !.userId = userId,
                           !.from = IF id \in DOMAIN bookings
                                      THEN bookings[id].status ELSE ""]]
  /\ UNCHANGED <<bookings, paymentVars, now>>

\* A body without userId.
ReceiveStatus(r) == ReceiveStatusOf(r, {""})

\* A faulty variant: the UPDATE without `WHERE id = $2`.
StatusUpdate_AllRows(r) ==
  /\ reqs[r].op = "status" /\ reqs[r].pc = "update"
  /\ IF reqs[r].id \in DOMAIN bookings
       THEN /\ bookings' = [i \in DOMAIN bookings |->
                              [bookings[i] EXCEPT !.status = reqs[r].status]]
            /\ reqs' = [reqs EXCEPT ![r] =
                 [Respond("status", 200, "") EXCEPT
                    !.id = reqs[r].id, !.event = "BookingStatusChanged"]]
       ELSE /\ bookings' = bookings
            /\ reqs' = [reqs EXCEPT ![r] = Respond("status", 404, "not_found")]
  /\ UNCHANGED <<paymentVars, now>>

\* A faulty variant: completing a booking also captures its authorized
\* intents.
StatusUpdate_Capturing(r) ==
  /\ reqs[r].op = "status" /\ reqs[r].pc = "update"
  /\ IF reqs[r].id \in DOMAIN bookings
       THEN /\ bookings' = [bookings EXCEPT ![reqs[r].id].status = reqs[r].status]
            /\ reqs' = [reqs EXCEPT ![r] =
                 [Respond("status", 200, "") EXCEPT
                    !.id = reqs[r].id, !.event = "BookingStatusChanged"]]
            /\ payment_intents' =
                 [i \in DOMAIN payment_intents |->
                    IF /\ reqs[r].status = "completed"
                       /\ payment_intents[i].booking_id = reqs[r].id
                       /\ payment_intents[i].status = "authorized"
                      THEN [payment_intents[i] EXCEPT !.status = "captured"]
                      ELSE payment_intents[i]]
       ELSE /\ bookings' = bookings
            /\ reqs' = [reqs EXCEPT ![r] = Respond("status", 404, "not_found")]
            /\ payment_intents' = payment_intents
  /\ UNCHANGED <<stripeIntents, stripeCaptures, now>>

\* The UPDATE executes: every row with that id gets the new status.
StatusUpdate(r) ==
  /\ reqs[r].op = "status" /\ reqs[r].pc = "update"
  /\ IF reqs[r].id \in DOMAIN bookings
       THEN /\ bookings' = [bookings EXCEPT ![reqs[r].id].status = reqs[r].status]
            /\ reqs' = [reqs EXCEPT ![r] =
                 [Respond("status", 200, "") EXCEPT
                    !.id = reqs[r].id, !.event = "BookingStatusChanged"]]
       ELSE /\ bookings' = bookings
            /\ reqs' = [reqs EXCEPT ![r] = Respond("status", 404, "not_found")]
  /\ UNCHANGED <<paymentVars, now>>

\* ------------------------------------------ POST /bookings/:id/cancel
\* hoursUntilStart = (startsAt - now) / (1000 * 60 * 60), compared with a
\* number of hours h: the quotient is below h iff the difference is below h
\* hours.
HoursUntilStartBelow(startsAt, t, h) == startsAt - t < h * MinutesPerHour

\* A faulty variant: the window applied to pending bookings, not confirmed ones.
CancellationWindowClosed_Pending(bookingData, t) ==
  /\ HoursUntilStartBelow(bookingData.starts_at, t, CancelCutoffHours)
  /\ bookingData.status = "pending"

\* `hoursUntilStart < 2 && bookingData.status === 'confirmed'`.
CancellationWindowClosed(bookingData, t) ==
  /\ HoursUntilStartBelow(bookingData.starts_at, t, CancelCutoffHours)
  /\ bookingData.status = "confirmed"

\* A faulty variant: `hoursUntilStart > 24`.
RefundEligible_Strict(startsAt, t) ==
  startsAt - t > RefundCutoffHours * MinutesPerHour

\* `refundEligible: hoursUntilStart >= 24`.
RefundEligible(startsAt, t) ==
  ~ HoursUntilStartBelow(startsAt, t, RefundCutoffHours)

ReceiveCancelOf(r, userIds) ==
  /\ reqs[r].pc = "idle"
  /\ \E id \in 1 .. MaxBookings, userId \in userIds :
       reqs' = [reqs EXCEPT ![r] =
         [Idle EXCEPT !.op = "cancel", !.pc = "read", !.id = id,
                      !.userId = userId]]
  /\ UNCHANGED <<bookings, paymentVars, now>>

\* A body without userId.
ReceiveCancel(r) == ReceiveCancelOf(r, {""})

\* A faulty variant: the event logged before the policy is applied.
CancelRead_Logging(r) ==
  /\ reqs[r].op = "cancel" /\ reqs[r].pc = "read"
  /\ reqs' = [reqs EXCEPT ![r] =
       IF reqs[r].id \notin DOMAIN bookings
         THEN Respond("cancel", 404, "not_found")
       ELSE IF CancellationWindowClosed(bookings[reqs[r].id], now)
         THEN [Respond("cancel", 400, "window_closed") EXCEPT
                 !.id = reqs[r].id, !.event = "BookingCancelled"]
       ELSE [reqs[r] EXCEPT !.pc = "update", !.now = now,
                            !.startsAt = bookings[reqs[r].id].starts_at,
                            !.status = bookings[reqs[r].id].status]]
  /\ UNCHANGED <<bookings, paymentVars, now>>

\* The SELECT returns; the handler samples the clock and applies the policy
\* to the row it holds in `bookingData`.
CancelRead(r) ==
  /\ reqs[r].op = "cancel" /\ reqs[r].pc = "read"
  /\ reqs' = [reqs EXCEPT ![r] =
       IF reqs[r].id \notin DOMAIN bookings
         THEN Respond("cancel", 404, "not_found")
       ELSE IF CancellationWindowClosed(bookings[reqs[r].id], now)
         THEN [Respond("cancel", 400, "window_closed") EXCEPT !.id = reqs[r].id]
       ELSE [reqs[r] EXCEPT !.pc = "update", !.now = now,
                            !.startsAt = bookings[reqs[r].id].starts_at,
                            !.status = bookings[reqs[r].id].status]]
  /\ UNCHANGED <<bookings, paymentVars, now>>

\* The UPDATE executes and the handler answers with the eligibility flag.
CancelUpdate(r) ==
  /\ reqs[r].op = "cancel" /\ reqs[r].pc = "update"
  /\ bookings' = [bookings EXCEPT ![reqs[r].id].status = "cancelled"]
  /\ reqs' = [reqs EXCEPT ![r] =
       [Respond("cancel", 200, "") EXCEPT
          !.id = reqs[r].id, !.now = reqs[r].now,
          !.startsAt = reqs[r].startsAt, !.event = "BookingCancelled",
          !.refundEligible = RefundEligible(reqs[r].startsAt, reqs[r].now)]]
  /\ UNCHANGED <<paymentVars, now>>

\* ------------------------------------------------ POST /payment-intents
\* Intent requests that have called the provider and not yet inserted.
IntentsInFlight ==
  {r \in Slots : reqs[r].op = "intent" /\ reqs[r].pc = "insert"}

\* `if (!bookingId || !amount)`.
MissingIntentField(bookingId, amount) == bookingId = 0 \/ amount = 0

\* The handler up to its INSERT: validation, then the provider's create,
\* whose intent id is `pi_mock_${Date.now()}`.  The mock's promise is already
\* resolved, so no other request runs between the call and what follows it.
ReceiveIntent(r) ==
  /\ reqs[r].pc = "idle"
  /\ Len(payment_intents) + Cardinality(IntentsInFlight) < MaxIntents
  /\ \E bookingId \in 0 .. MaxBookings, amount \in Amounts \cup {0} :
       IF MissingIntentField(bookingId, amount)
         THEN /\ reqs' = [reqs EXCEPT ![r] =
                   [Respond("intent", 400, "required") EXCEPT
                      !.bookingId = bookingId]]
              /\ stripeIntents' = stripeIntents
         ELSE /\ reqs' = [reqs EXCEPT ![r] =
                   [Idle EXCEPT !.op = "intent", !.pc = "insert",
                                !.bookingId = bookingId, !.amount = amount,
                                !.now = now]]
              /\ stripeIntents' =
                   stripeIntents \cup {[id |-> now, bookingId |-> bookingId]}
  /\ UNCHANGED <<bookings, payment_intents, stripeCaptures, now>>

\* The row the INSERT stores.
NewIntent(q) ==
  [booking_id |-> q.bookingId, provider |-> "stripe",
   status |-> "requires_action", amount |-> q.amount, currency |-> "USD",
   provider_intent_id |-> q.now]

\* The INSERT executes; booking_id REFERENCES bookings(id), so it throws for
\* an unknown booking and the handler answers 500.
InsertIntent(r) ==
  /\ reqs[r].op = "intent" /\ reqs[r].pc = "insert"
  /\ IF reqs[r].bookingId \in DOMAIN bookings
       THEN /\ payment_intents' = Append(payment_intents, NewIntent(reqs[r]))
            /\ reqs' = [reqs EXCEPT ![r] =
                 [Respond("intent", 201, "") EXCEPT
                    !.id = Len(payment_intents) + 1,
                    !.bookingId = reqs[r].bookingId]]
       ELSE /\ payment_intents' = payment_intents
            /\ reqs' = [reqs EXCEPT ![r] =
                 [Respond("intent", 500, "failed") EXCEPT
                    !.bookingId = reqs[r].bookingId]]
  /\ UNCHANGED <<bookings, stripeIntents, stripeCaptures, now>>

\* ------------------------------------ POST /payment-intents/:id/confirm
ReceiveConfirm(r) ==
  /\ reqs[r].pc = "idle"
  /\ \E id \in 1 .. MaxIntents :
       reqs' = [reqs EXCEPT ![r] =
         [Idle EXCEPT !.op = "confirm", !.pc = "read", !.id = id]]
  /\ UNCHANGED <<bookings, paymentVars, now>>

\* mockStripe.paymentIntents.confirm: the status of the object it resolves to.
MockConfirm == "succeeded"

\* A faulty variant: on to the UPDATE without the provider's confirm.
ConfirmRead_Optimistic(r) ==
  /\ reqs[r].op = "confirm" /\ reqs[r].pc = "read"
  /\ reqs' = [reqs EXCEPT ![r] =
       IF reqs[r].id \notin DOMAIN payment_intents
         THEN Respond("confirm", 404, "not_found")
         ELSE [reqs[r] EXCEPT !.pc = "update"]]
  /\ UNCHANGED <<bookings, paymentVars, now>>

\* The SELECT returns; 404 without a row, else the provider's confirm, whose
\* result the handler holds in `intent`, and on to the UPDATE.
ConfirmRead(r) ==
  /\ reqs[r].op = "confirm" /\ reqs[r].pc = "read"
  /\ reqs' = [reqs EXCEPT ![r] =
       IF reqs[r].id \notin DOMAIN payment_intents
         THEN Respond("confirm", 404, "not_found")
         ELSE [reqs[r] EXCEPT !.pc = "update", !.status = MockConfirm]]
  /\ UNCHANGED <<bookings, paymentVars, now>>

\* The UPDATE sets status 'authorized', whatever the status was; the answer
\* carries `intent.status`.
ConfirmUpdate(r) ==
  /\ reqs[r].op = "confirm" /\ reqs[r].pc = "update"
  /\ payment_intents' =
       [payment_intents EXCEPT ![reqs[r].id].status = "authorized"]
  /\ reqs' = [reqs EXCEPT ![r] =
       [Respond("confirm", 200, "") EXCEPT
          !.id = reqs[r].id, !.status = reqs[r].status]]
  /\ UNCHANGED <<bookings, stripeIntents, stripeCaptures, now>>

\* ------------------------------------ POST /payment-intents/:id/capture
\* Capture requests that have not yet read their row.
CapturesWaiting(id) ==
  {r \in Slots :
     reqs[r].op = "capture" /\ reqs[r].pc = "read" /\ reqs[r].id = id}

ReceiveCapture(r) ==
  /\ reqs[r].pc = "idle"
  /\ \E id \in 1 .. MaxIntents :
       /\ stripeCaptures[id] + Cardinality(CapturesWaiting(id)) < MaxCaptures
       /\ reqs' = [reqs EXCEPT ![r] =
            [Idle EXCEPT !.op = "capture", !.pc = "read", !.id = id]]
  /\ UNCHANGED <<bookings, paymentVars, now>>

\* `if (payment.status !== 'authorized')`.
CaptureAllowed(payment) == payment.status = "authorized"

\* The SELECT returns; 404 without a row, 400 unless the row read is
\* authorized, else the provider's capture and on to the UPDATE.
CaptureRead(r) ==
  /\ reqs[r].op = "capture" /\ reqs[r].pc = "read"
  /\ IF reqs[r].id \notin DOMAIN payment_intents
       THEN /\ reqs' = [reqs EXCEPT ![r] = Respond("capture", 404, "not_found")]
            /\ stripeCaptures' = stripeCaptures
     ELSE IF ~ CaptureAllowed(payment_intents[reqs[r].id])
       THEN /\ reqs' = [reqs EXCEPT ![r] =
                 [Respond("capture", 400, "not_authorized") EXCEPT
                    !.id = reqs[r].id,
                    !.status = payment_intents[reqs[r].id].status]]
            /\ stripeCaptures' = stripeCaptures
     ELSE /\ reqs' = [reqs EXCEPT ![r].pc = "update"]
          /\ stripeCaptures' =
               [stripeCaptures EXCEPT ![reqs[r].id] = @ + 1]
  /\ UNCHANGED <<bookings, payment_intents, stripeIntents, now>>

CaptureUpdate(r) ==
  /\ reqs[r].op = "capture" /\ reqs[r].pc = "update"
  /\ payment_intents' =
       [payment_intents EXCEPT ![reqs[r].id].status = "captured"]
  /\ reqs' = [reqs EXCEPT ![r] =
       [Respond("capture", 200, "") EXCEPT !.id = reqs[r].id]]
  /\ UNCHANGED <<bookings, stripeIntents, stripeCaptures, now>>

\* ------------------------------------- POST /payment-intents/:id/refund
ReceiveRefund(r) ==
  /\ reqs[r].pc = "idle"
  /\ \E id \in 1 .. MaxIntents, amount \in RefundAmounts \cup {0} :
       reqs' = [reqs EXCEPT ![r] =
         [Idle EXCEPT !.op = "refund", !.pc = "read", !.id = id,
                      !.amount = amount]]
  /\ UNCHANGED <<bookings, paymentVars, now>>

\* `if (payment.status !== 'captured')`.
RefundAllowed(payment) == payment.status = "captured"

\* `amount || payment.amount`.
RefundAmount(amount, payment) == IF amount # 0 THEN amount ELSE payment.amount

RefundRead(r) ==
  /\ reqs[r].op = "refund" /\ reqs[r].pc = "read"
  /\ reqs' = [reqs EXCEPT ![r] =
       IF reqs[r].id \notin DOMAIN payment_intents
         THEN Respond("refund", 404, "not_found")
       ELSE IF ~ RefundAllowed(payment_intents[reqs[r].id])
         THEN [Respond("refund", 400, "not_captured") EXCEPT
                 !.id = reqs[r].id,
                 !.status = payment_intents[reqs[r].id].status]
       ELSE [reqs[r] EXCEPT
               !.pc = "update",
               !.amount = RefundAmount(reqs[r].amount,
                                       payment_intents[reqs[r].id])]]
  /\ UNCHANGED <<bookings, paymentVars, now>>

RefundUpdate(r) ==
  /\ reqs[r].op = "refund" /\ reqs[r].pc = "update"
  /\ payment_intents' =
       [payment_intents EXCEPT ![reqs[r].id].status = "refunded"]
  /\ reqs' = [reqs EXCEPT ![r] =
       [Respond("refund", 200, "") EXCEPT
          !.id = reqs[r].id, !.amount = reqs[r].amount]]
  /\ UNCHANGED <<bookings, stripeIntents, stripeCaptures, now>>

\* The response has been delivered; the slot is free again.
Reply(r) ==
  /\ reqs[r].pc = "done"
  /\ reqs' = [reqs EXCEPT ![r] = Idle]
  /\ UNCHANGED <<bookings, paymentVars, now>>

\* ------------------------------------------------------- specifications
SessionNext ==
  \E r \in Slots :
    \/ ReceiveCreate(r) \/ CreateCheck(r) \/ CreateInsert(r)
    \/ ReceiveStatus(r) \/ StatusUpdate(r)
    \/ ReceiveCancel(r) \/ CancelRead(r) \/ CancelUpdate(r)
    \/ Reply(r)

\* session-service on its own.
Next == Tick \/ SessionNext

Spec == Init /\ [][Next]_vars

\* payment-service, with bookings for its intents to refer to: every booking
\* is for the same player, coach and slot.
PaymentNext ==
  \E r \in Slots :
    \/ ReceiveCreateOf(r, {"p1"}, {"c1"}, {1500}, {DefaultDurationMinutes})
    \/ CreateCheck(r) \/ CreateInsert(r)
    \/ ReceiveIntent(r) \/ InsertIntent(r)
    \/ ReceiveConfirm(r) \/ ConfirmRead(r) \/ ConfirmUpdate(r)
    \/ ReceiveCapture(r) \/ CaptureRead(r) \/ CaptureUpdate(r)
    \/ ReceiveRefund(r) \/ RefundRead(r) \/ RefundUpdate(r)
    \/ Reply(r)

SpecPayment == Init /\ [][Tick \/ PaymentNext]_vars

\* session-service with one request at a time, each run to completion.
Quiet == \A q \in Slots : reqs[q].pc \in {"idle", "done"}

SeqNext ==
  \E r \in Slots :
    \/ Quiet /\ (ReceiveCreate(r) \/ ReceiveStatus(r) \/ ReceiveCancel(r))
    \/ CreateCheck(r) \/ CreateInsert(r)
    \/ StatusUpdate(r)
    \/ CancelRead(r) \/ CancelUpdate(r)
    \/ Reply(r)

SpecSeq == Init /\ [][Tick \/ SeqNext]_vars

\* Only POST /bookings, requests interleaved.
CreateNext ==
  \E r \in Slots :
    ReceiveCreate(r) \/ CreateCheck(r) \/ CreateInsert(r) \/ Reply(r)

SpecCreate == Init /\ [][Tick \/ CreateNext]_vars

\* Both services with one client that sends a request only after it got
\* the answer to the one before: a booking's whole life with its payment.
\* Every booking is for the same player, coach and slot.
AllIdle == \A q \in Slots : reqs[q].pc = "idle"

LifecycleNext ==
  \E r \in Slots :
    \/ AllIdle /\ ReceiveCreateOf(r, {"p1"}, {"c1"}, {1500}, {DefaultDurationMinutes})
    \/ AllIdle /\ (ReceiveStatus(r) \/ ReceiveCancel(r))
    \/ AllIdle /\ (ReceiveIntent(r) \/ ReceiveConfirm(r))
    \/ AllIdle /\ (ReceiveCapture(r) \/ ReceiveRefund(r))
    \/ CreateCheck(r) \/ CreateInsert(r)
    \/ StatusUpdate(r)
    \/ CancelRead(r) \/ CancelUpdate(r)
    \/ InsertIntent(r)
    \/ ConfirmRead(r) \/ ConfirmUpdate(r)
    \/ CaptureRead(r) \/ CaptureUpdate(r)
    \/ RefundRead(r) \/ RefundUpdate(r)
    \/ Reply(r)

SpecLifecycle == Init /\ [][LifecycleNext]_vars

\* Only POST /bookings, for one coach, with bodies whose duration is zero or
\* negative and bodies whose start the clock has passed.
NonPositiveDurations == {0, 0 - DefaultDurationMinutes}
EarlyStartTimes == {720}

ValidateNext ==
  \E r \in Slots :
    \/ ReceiveCreateOf(r, Players \cup {""}, {"c1", ""},
                       EarlyStartTimes \cup {0, 1440},
                       Durations \cup NonPositiveDurations)
    \/ CreateCheck(r) \/ CreateInsert(r) \/ Reply(r)

SpecValidate == Init /\ [][Tick \/ ValidateNext]_vars

\* session-service with one client that names the acting user in its status
\* and cancel requests.  Every booking is for the same player, coach and slot.
ActorNext ==
  \E r \in Slots :
    \/ AllIdle /\ ReceiveCreateOf(r, {"p1"}, {"c1"}, {1500}, {DefaultDurationMinutes})
    \/ AllIdle /\ (ReceiveStatusOf(r, UserIds) \/ ReceiveCancelOf(r, UserIds))
    \/ CreateCheck(r) \/ CreateInsert(r)
    \/ StatusUpdate(r)
    \/ CancelRead(r) \/ CancelUpdate(r)
    \/ Reply(r)

SpecActor == Init /\ [][Tick \/ ActorNext]_vars

\* ------------------------------------------- a provider that may hang
\* mockStripe stands in for the payment provider, and its promises are
\* resolved at once.  Here the provider is one whose promise resolves at
\* some later time or never: the handler's `await` of the provider's call
\* is a step of its own, which the handler passes when the promise resolves.

\* The SELECT returns; 404 without a row, else the handler calls the
\* provider's confirm and awaits its promise.
ConfirmAwait(r) ==
  /\ reqs[r].op = "confirm" /\ reqs[r].pc = "read"
  /\ reqs' = [reqs EXCEPT ![r] =
       IF reqs[r].id \notin DOMAIN payment_intents
         THEN Respond("confirm", 404, "not_found")
         ELSE [reqs[r] EXCEPT !.pc = "provider"]]
  /\ UNCHANGED <<bookings, paymentVars, now>>

\* The promise of the provider's confirm resolves.
ConfirmResolved(r) ==
  /\ reqs[r].op = "confirm" /\ reqs[r].pc = "provider"
  /\ reqs' = [reqs EXCEPT ![r].pc = "update", ![r].status = MockConfirm]
  /\ UNCHANGED <<bookings, paymentVars, now>>

\* The SELECT returns; 404 without a row, 400 unless the row read is
\* authorized, else the handler calls the provider's capture and awaits its
\* promise.
CaptureAwait(r) ==
  /\ reqs[r].op = "capture" /\ reqs[r].pc = "read"
  /\ IF reqs[r].id \notin DOMAIN payment_intents
       THEN /\ reqs' = [reqs EXCEPT ![r] = Respond("capture", 404, "not_found")]
            /\ stripeCaptures' = stripeCaptures
     ELSE IF ~ CaptureAllowed(payment_intents[reqs[r].id])
       THEN /\ reqs' = [reqs EXCEPT ![r] =
                 [Respond("capture", 400, "not_authorized") EXCEPT
                    !.id = reqs[r].id,
                    !.status = payment_intents[reqs[r].id].status]]
            /\ stripeCaptures' = stripeCaptures
     ELSE /\ reqs' = [reqs EXCEPT ![r].pc = "provider"]
          /\ stripeCaptures' =
               [stripeCaptures EXCEPT ![reqs[r].id] = @ + 1]
  /\ UNCHANGED <<bookings, payment_intents, stripeIntents, now>>

\* The promise of the provider's capture resolves.
CaptureResolved(r) ==
  /\ reqs[r].op = "capture" /\ reqs[r].pc = "provider"
  /\ reqs' = [reqs EXCEPT ![r].pc = "update"]
  /\ UNCHANGED <<bookings, paymentVars, now>>

\* The steps of the handlers that wait for the database only.
HandlerSteps ==
  \E r \in Slots :
    \/ CreateCheck(r) \/ CreateInsert(r)
    \/ InsertIntent(r)
    \/ ConfirmAwait(r) \/ ConfirmUpdate(r)
    \/ CaptureAwait(r) \/ CaptureUpdate(r)
    \/ Reply(r)

HungNext ==
  \/ \E r \in Slots :
       \/ AllIdle /\ ReceiveCreateOf(r, {"p1"}, {"c1"}, {1500}, {DefaultDurationMinutes})
       \/ AllIdle /\ (ReceiveIntent(r) \/ ReceiveConfirm(r) \/ ReceiveCapture(r))
       \/ ConfirmResolved(r) \/ CaptureResolved(r)
  \/ HandlerSteps

\* payment-service with a provider that may hang, one request at a time.
\* The database answers every statement and Node runs every continuation
\* that is ready, so the handlers' own steps are fair; nothing makes the
\* provider answer.
SpecHung == Init /\ [][HungNext]_vars /\ WF_vars(HandlerSteps)

\* ================================================================ claims
Active(b) == b.status \notin {"cancelled", "completed"}

\* Half-open intervals [starts_at, starts_at + duration) that overlap.
Overlap(a, b) ==
  /\ a.starts_at < b.starts_at + b.duration
  /\ b.starts_at < a.starts_at + a.duration

SameSlot(a, b) ==
  /\ a.coach_id = b.coach_id
  /\ a.starts_at = b.starts_at
  /\ a.duration = b.duration

\* r has just sent a response in this step.
Answers(r, op) ==
  /\ reqs[r].op = op /\ reqs[r].pc \notin {"idle", "done"}
  /\ reqs'[r].pc = "done"

\* C1: after any sequence of create, status and cancel requests, each run to
\* completion, no two active bookings of the same coach overlap.
C1_ConflictInvariant ==
  \A i, j \in DOMAIN bookings :
    (i # j /\ bookings[i].coach_id = bookings[j].coach_id
       /\ Active(bookings[i]) /\ Active(bookings[j]))
      => ~ Overlap(bookings[i], bookings[j])

\* C2: of interleaved create requests for the same coach and the identical
\* interval, never two end with a persisted booking.
C2_ExactlyOnePersists ==
  \A r1, r2 \in Slots :
    (r1 # r2 /\ reqs[r1].op = "create" /\ reqs[r1].code = 201
       /\ reqs[r2].op = "create" /\ reqs[r2].code = 201)
      => ~ SameSlot(bookings[reqs[r1].id], bookings[reqs[r2].id])

LegalTransitions ==
  {<<"pending", "confirmed">>, <<"confirmed", "in_progress">>,
   <<"in_progress", "completed">>, <<"pending", "cancelled">>,
   <<"confirmed", "cancelled">>}

\* C3: a status request succeeds only when (current status, target) is a row
\* of the transition table.
C3_OnlyLegalTransitions ==
  [][\A r \in Slots :
       (Answers(r, "status") /\ reqs'[r].code = 200)
         => <<bookings[reqs[r].id].status, reqs[r].status>> \in LegalTransitions]_vars

\* C4: a status request whose booking has left the status it had when the
\* request arrived (another request's write came first) does not succeed, so
\* of two requests that expect the same "from" state only one is applied.
C4_NoStaleTransition ==
  [][\A r \in Slots :
       (Answers(r, "status") /\ reqs[r].from # "" /\ reqs'[r].code = 200)
         => bookings[reqs[r].id].status = reqs[r].from]_vars

\* C5: a cancel request that reads a confirmed booking starting less than 2
\* hours after the current time answers 400 (cancellation window closed) and
\* writes nothing.
C5_WindowClosedRejected ==
  [][\A r \in Slots :
       (/\ reqs[r].op = "cancel" /\ reqs[r].pc = "read"
        /\ reqs'[r] # reqs[r]
        /\ reqs[r].id \in DOMAIN bookings
        /\ bookings[reqs[r].id].status = "confirmed"
        /\ bookings[reqs[r].id].starts_at - now
             < CancelCutoffHours * MinutesPerHour)
         => /\ reqs'[r].pc = "done"
            /\ reqs'[r].code = 400
            /\ reqs'[r].error = "window_closed"
            /\ bookings' = bookings]_vars

\* A cancel request was rejected for the window and its booking is confirmed.
C5_Witness ==
  \E r \in Slots :
    /\ reqs[r].op = "cancel" /\ reqs[r].error = "window_closed"
    /\ bookings[reqs[r].id].status = "confirmed"
    /\ bookings[reqs[r].id].starts_at - now < CancelCutoffHours * MinutesPerHour

\* C6: a successful cancel request returns refundEligible = TRUE exactly when
\* the booking starts 24 hours or more after the time the handler sampled.
C6_RefundEligibility ==
  \A r \in Slots :
    (reqs[r].op = "cancel" /\ reqs[r].pc = "done" /\ reqs[r].code = 200)
      => (reqs[r].refundEligible
            <=> bookings[reqs[r].id].starts_at - reqs[r].now
                  >= RefundCutoffHours * MinutesPerHour)

\* A booking starting 25 hours after the sampled time was cancelled with
\* refundEligible = TRUE.
C6_Witness ==
  \E r \in Slots :
    /\ reqs[r].op = "cancel" /\ reqs[r].pc = "done" /\ reqs[r].code = 200
    /\ bookings[reqs[r].id].status = "cancelled"
    /\ bookings[reqs[r].id].starts_at - reqs[r].now = 25 * MinutesPerHour
    /\ reqs[r].refundEligible

\* C7: a cancel request that reads a booking in progress or completed is
\* rejected and leaves the bookings unchanged.
C7_NoCancelUnderway ==
  [][\A r \in Slots :
       (/\ reqs[r].op = "cancel" /\ reqs[r].pc \in {"read", "update"}
        /\ reqs'[r] # reqs[r]
        /\ reqs[r].id \in DOMAIN bookings
        /\ bookings[reqs[r].id].status \in {"in_progress", "completed"})
         => /\ reqs'[r].pc = "done" /\ reqs'[r].code >= 400
            /\ bookings' = bookings]_vars

\* C8: an intent's status becomes captured only from authorized and refunded
\* only from captured.
C8_GuardedPaymentTransitions ==
  [][\A i \in DOMAIN payment_intents :
       LET old == payment_intents[i].status
           new == payment_intents'[i].status
       IN /\ (new = "captured" /\ old # "captured") => old = "authorized"
          /\ (new = "refunded" /\ old # "refunded") => old = "captured"]_vars

\* C9: a capture request that finds the intent already captured returns the
\* successful result, not an error.
C9_IdempotentCapture ==
  \A r \in Slots :
    (reqs[r].op = "capture" /\ reqs[r].pc = "done"
       /\ reqs[r].status = "captured")
      => reqs[r].code = 200

\* The intents of booking b that hold or held its funds.
AuthorizedIntents(b) ==
  {i \in DOMAIN payment_intents :
     /\ payment_intents[i].booking_id = b
     /\ payment_intents[i].status \in {"authorized", "captured"}}

\* C10: when the authorization of a booking's payment has failed and nothing
\* is authorized for it, the booking is not confirmed or otherwise active.
C10_RollbackOnPaymentFailure ==
  \A r \in Slots :
    (/\ reqs[r].op = "intent" /\ reqs[r].pc = "done" /\ reqs[r].code >= 400
     /\ reqs[r].bookingId \in DOMAIN bookings
     /\ AuthorizedIntents(reqs[r].bookingId) = {})
      => ~ Active(bookings[reqs[r].bookingId])

\* The intents of booking b that have been authorized, whatever became of
\* them afterwards.
ReachedAuthorized(b) ==
  {i \in DOMAIN payment_intents :
     /\ payment_intents[i].booking_id = b
     /\ payment_intents[i].status # "requires_action"}

\* C11: a booking is stored as pending and becomes confirmed only after its
\* payment was authorized: every confirmed booking has an intent that reached
\* authorized, also right after a successful create.
C11_ConfirmedOnlyWhenAuthorized ==
  \A b \in DOMAIN bookings :
    bookings[b].status = "confirmed" => ReachedAuthorized(b) # {}

\* C12: when a status request moves a booking from confirmed to in_progress,
\* the booking's authorized intent is captured by the time the request has
\* completed.
C12_StartCaptures ==
  [][\A r \in Slots :
       (/\ Answers(r, "status") /\ reqs'[r].code = 200
        /\ bookings[reqs[r].id].status = "confirmed"
        /\ bookings'[reqs[r].id].status = "in_progress")
         => \A i \in DOMAIN payment_intents :
              (/\ payment_intents[i].booking_id = reqs[r].id
               /\ payment_intents[i].status = "authorized")
                => payment_intents'[i].status = "captured"]_vars

\* C13: after a successful cancel request of a pending or confirmed booking,
\* no intent of the booking is left authorized or captured: the funds were
\* released or refunded.
C13_CancelReleasesFunds ==
  [][\A r \in Slots :
       (/\ Answers(r, "cancel") /\ reqs'[r].code = 200
        /\ bookings[reqs[r].id].status \in {"pending", "confirmed"})
         => \A i \in DOMAIN payment_intents :
              payment_intents[i].booking_id = reqs[r].id
                => payment_intents'[i].status \notin {"authorized", "captured"}]_vars

\* C14: a captured intent belongs to a booking that is in progress or
\* completed.
C14_CapturedOnlyWhenStarted ==
  \A i \in DOMAIN payment_intents :
    payment_intents[i].status = "captured"
      => bookings[payment_intents[i].booking_id].status
           \in {"in_progress", "completed"}

\* C15: a create request whose duration is not positive or whose start is
\* not after the current time is answered with a validation error: it never
\* passes on to the conflict check, and no booking with such a duration is
\* ever stored.
C15_InvalidRejected ==
  [][/\ \A r \in Slots :
          (reqs[r].pc = "idle" /\ reqs'[r].op = "create"
             /\ reqs'[r].pc = "check")
            => reqs'[r].durationMinutes > 0 /\ reqs'[r].startsAt > now
     /\ \A b \in DOMAIN bookings' : bookings'[b].duration > 0]_vars

\* The interval create request q asks for and the interval of booking b
\* overlap as half-open intervals.
RequestOverlaps(q, b) ==
  /\ q.startsAt < b.starts_at + b.duration
  /\ b.starts_at < q.startsAt + q.durationMinutes

\* One of the two intervals ends exactly where the other begins.
Touches(q, b) ==
  \/ q.startsAt = b.starts_at + b.duration
  \/ q.startsAt + q.durationMinutes = b.starts_at

\* The active bookings of q's coach that overlap the interval q asks for.
Blockers(q) ==
  {i \in DOMAIN bookings :
     /\ bookings[i].coach_id = q.coachId
     /\ Active(bookings[i])
     /\ RequestOverlaps(q, bookings[i])}

\* r's conflict SELECT returns in this step.
Checks(r) ==
  reqs[r].op = "create" /\ reqs[r].pc = "check" /\ reqs'[r] # reqs[r]

\* C16: a create request is answered with a conflict exactly when some
\* active booking of its coach overlaps the requested interval.
C16_ConflictIffOverlap ==
  [][\A r \in Slots :
       Checks(r) => (reqs'[r].code = 409 <=> Blockers(reqs[r]) # {})]_vars

\* C17: a create request whose interval touches an active booking of its
\* coach at a boundary, and overlaps none, is not rejected as a conflict.
C17_TouchingAccepted ==
  [][\A r \in Slots :
       (/\ Checks(r)
        /\ \E i \in DOMAIN bookings :
             /\ bookings[i].coach_id = reqs[r].coachId
             /\ Active(bookings[i])
             /\ Touches(reqs[r], bookings[i])
        /\ Blockers(reqs[r]) = {})
         => reqs'[r].pc = "insert"]_vars

\* A create request has passed the conflict check while an active booking
\* of its coach ends exactly at the requested start.
C17_Witness ==
  \E r \in Slots :
    /\ reqs[r].op = "create" /\ reqs[r].pc = "insert"
    /\ \E i \in DOMAIN bookings :
         /\ bookings[i].coach_id = reqs[r].coachId
         /\ Active(bookings[i])
         /\ reqs[r].startsAt = bookings[i].starts_at + bookings[i].duration

\* C18: a create request whose interval overlaps cancelled or completed
\* bookings of its coach, and no active one, is not rejected as a conflict.
C18_InactiveNeverBlocks ==
  [][\A r \in Slots :
       (/\ Checks(r)
        /\ \E i \in DOMAIN bookings :
             /\ bookings[i].coach_id = reqs[r].coachId
             /\ ~ Active(bookings[i])
             /\ RequestOverlaps(reqs[r], bookings[i])
        /\ Blockers(reqs[r]) = {})
         => reqs'[r].pc = "insert"]_vars

\* A create request has passed the conflict check for the very slot of a
\* cancelled booking of its coach.
C18_Witness ==
  \E r \in Slots :
    /\ reqs[r].op = "create" /\ reqs[r].pc = "insert"
    /\ \E i \in DOMAIN bookings :
         /\ bookings[i].coach_id = reqs[r].coachId
         /\ bookings[i].status = "cancelled"
         /\ bookings[i].starts_at = reqs[r].startsAt

C20_SingleFullRefund ==
  [][\A r \in Slots :
       /\ (reqs[r].op = "refund" /\ reqs[r].pc = "read"
              /\ reqs'[r].pc = "update")
            => reqs'[r].amount =
                 IF reqs[r].amount # 0 THEN reqs[r].amount
                 ELSE payment_intents[reqs[r].id].amount
       /\ (Answers(r, "refund") /\ reqs'[r].code = 200)
            => /\ payment_intents'[reqs[r].id].status = "refunded"
               /\ payment_intents[reqs[r].id].status # "refunded"]_vars

\* The intents of booking b that are neither refunded nor failed.
ActiveIntents(b) ==
  {i \in DOMAIN payment_intents :
     /\ payment_intents[i].booking_id = b
     /\ payment_intents[i].status \in {"requires_action", "authorized", "captured"}}

\* C21: no booking has two intents that are both in requires_action,
\* authorized or captured.
C21_OneActiveIntent ==
  \A b \in DOMAIN bookings : Cardinality(ActiveIntents(b)) <= 1

\* C22: a status request moves a booking from confirmed to in_progress only
\* when its acting user is the platform's timer, and a cancel request
\* succeeds only when its acting user is the booking's player, its coach or
\* an administrator.
C22_ActorEnforced ==
  [][\A r \in Slots :
       /\ (/\ Answers(r, "status") /\ reqs'[r].code = 200
            /\ bookings[reqs[r].id].status = "confirmed"
            /\ bookings'[reqs[r].id].status = "in_progress")
             => reqs[r].userId = "timer"
       /\ (Answers(r, "cancel") /\ reqs'[r].code = 200)
             => reqs[r].userId \in {bookings[reqs[r].id].player_id,
                                    bookings[reqs[r].id].coach_id, "admin"}]_vars

\* C23: no booking is ever removed; a booking's player, coach, start,
\* duration and timezone never change; and a status or cancel request leaves
\* every booking but the one it names exactly as it was.
C23_BookingsImmutable ==
  [][/\ Len(bookings') >= Len(bookings)
     /\ \A i \in DOMAIN bookings :
          [bookings'[i] EXCEPT !.status = bookings[i].status] = bookings[i]
     /\ \A r \in Slots :
          (Answers(r, "status") \/ Answers(r, "cancel"))
            => \A j \in DOMAIN bookings :
                 j # reqs[r].id => bookings'[j] = bookings[j]]_vars

\* Of two bookings one has been cancelled by a request and the other is
\* still confirmed.
C23_Witness ==
  /\ Len(bookings) = 2
  /\ \E r \in Slots :
       /\ reqs[r].op \in {"status", "cancel"} /\ reqs[r].code = 200
       /\ bookings[reqs[r].id].status = "cancelled"
       /\ \E j \in DOMAIN bookings :
            j # reqs[r].id /\ bookings[j].status = "confirmed"

\* C24: a status request that moves a booking from in_progress to completed
\* leaves every intent as it was and makes no call to the provider.
C24_CompleteNoPayment ==
  [][\A r \in Slots :
       (/\ Answers(r, "status") /\ reqs'[r].code = 200
        /\ bookings[reqs[r].id].status = "in_progress"
        /\ bookings'[reqs[r].id].status = "completed")
         => /\ payment_intents' = payment_intents
            /\ stripeIntents' = stripeIntents
            /\ stripeCaptures' = stripeCaptures]_vars

\* A status request has completed a booking whose intent is authorized.
C24_Witness ==
  \E r \in Slots :
    /\ reqs[r].op = "status" /\ reqs[r].pc = "done" /\ reqs[r].code = 200
    /\ bookings[reqs[r].id].status = "completed"
    /\ \E i \in DOMAIN payment_intents :
         /\ payment_intents[i].booking_id = reqs[r].id
         /\ payment_intents[i].status = "authorized"

\* The domain event of each operation of session-service.
DomainEvent(op) ==
  CASE op = "create" -> "BookingCreated"
    [] op = "status" -> "BookingStatusChanged"
    [] op = "cancel" -> "BookingCancelled"

C26_HungProviderTimesOut ==
  \A r \in Slots : (reqs[r].pc = "provider") ~> (reqs[r].pc = "done")

\* The place of a status in the order requires_action, authorized,
\* captured, refunded.
Rank(status) ==
  CASE status = "requires_action" -> 0
    [] status = "authorized" -> 1
    [] status = "captured" -> 2
    [] status = "refunded" -> 3

\* C27: no request moves an intent's status backward in the order
\* requires_action, authorized, captured, refunded.
C27_StatusNeverBackward ==
  [][\A i \in DOMAIN payment_intents :
       Rank(payment_intents'[i].status) >= Rank(payment_intents[i].status)]_vars

\* C28: of the capture requests for one intent, at most one at a time is
\* between the provider's capture and its UPDATE: two requests never both
\* capture the same authorization.
C28_SingleCapture ==
  \A r1, r2 \in Slots :
    (/\ reqs[r1].op = "capture" /\ reqs[r1].pc = "update"
     /\ reqs[r2].op = "capture" /\ reqs[r2].pc = "update"
     /\ reqs[r1].id = reqs[r2].id)
      => r1 = r2

\* The request that has made provider intent s and not yet stored its row.
Storing(s) ==
  {r \in Slots :
     /\ reqs[r].op = "intent" /\ reqs[r].pc = "insert"
     /\ reqs[r].now = s.id /\ reqs[r].bookingId = s.bookingId}

\* C30: once the request that made it has ended, every intent at the
\* provider has a row in payment_intents that refers to an existing booking.
C30_NoOrphanProviderIntent ==
  \A s \in stripeIntents :
    Storing(s) = {}
      => \E i \in DOMAIN payment_intents :
           /\ payment_intents[i].provider_intent_id = s.id
           /\ payment_intents[i].booking_id = s.bookingId
           /\ s.bookingId \in DOMAIN bookings

\* C29: a cancel request writes cancelled only while the booking still has
\* the status the request read and applied the policy to.
C29_CancelSeesItsStatus ==
  [][\A r \in Slots :
       (/\ Answers(r, "cancel") /\ reqs[r].pc = "update"
        /\ bookings'[reqs[r].id].status = "cancelled")
         => bookings[reqs[r].id].status = reqs[r].status]_vars
====
